---- MODULE Spec2Model ----
(***************************************************************************)
(* State-machine model of the tic-tac-toe component of src/src/App.jsx.   *)
(*                                                                         *)
(* The file holds two versions of the component one after the other       *)
(* (lines 1-639 and 641-868).  Their game logic (WINNING_LINES,           *)
(* calculateWinner, the score-recording effect, handleSquareClick,        *)
(* resetBoard, handleStartGame, handleNewRound, handleResetAll) is the     *)
(* same text; the first version adds the audio plumbing and the two       *)
(* dialogs.  The model follows the first version.                          *)
(*                                                                         *)
(* React executes one event handler to completion, commits the state      *)
(* updates it queued (re-rendering the component, which recomputes        *)
(* winnerInfo and isDraw), runs the promise callbacks that are already     *)
(* settled, and flushes the passive effects of that commit before the next *)
(* event is dispatched.  A handler action below is the handler together    *)
(* with the commit of its updates; the promise callbacks and the passive   *)
(* effects are actions of their own that are scheduled before any further  *)
(* event.  Handlers are callable in every state: what they do when their   *)
(* button is not shown or disabled is decided by their own guards.         *)
(***************************************************************************)
EXTENDS Integers, Sequences, FiniteSets, TLC

\* ------------------------------------------------------------------ bounds
\* finished rounds on the scoreboard after which no further mark is placed
MaxRounds == 1
\* promise callbacks that may be waiting for AudioContext.resume()
MaxPending == 1
\* cleanup timers of stopBackgroundMusic that may be waiting
MaxTimers == 2
\* sets of background-music nodes whose note timers may run at once
MaxSets == 2

\* --------------------------------------------------------------- constants
Null == "null"
Cells == 0 .. 8
VolumeLevels == {0, 70}
EffectNames == {"syncUnlock", "stopWhenIdle", "recordResult"}

WINNING_LINES ==
  << <<0, 1, 2>>,
     <<3, 4, 5>>,
     <<6, 7, 8>>,
     <<0, 3, 6>>,
     <<1, 4, 7>>,
     <<2, 5, 8>>,
     <<0, 4, 8>>,
     <<2, 4, 6>> >>

\* the value calculateWinner returns when no line matches
NullWinner == [player |-> Null, line |-> << >>]

\* JavaScript truthiness of a cell value (null is falsy, 'X' and 'O' truthy)
Truthy(v) == v # Null

\* variant: the third cell of the line is not compared
LineMatches_TwoCells(sq, line) ==
  /\ Truthy(sq[line[1]])
  /\ sq[line[1]] = sq[line[2]]

\* the test of the loop body of calculateWinner
LineMatches(sq, line) ==
  /\ Truthy(sq[line[1]])
  /\ sq[line[1]] = sq[line[2]]
  /\ sq[line[1]] = sq[line[3]]

\* the for loop of calculateWinner, from the k-th line on
RECURSIVE WinnerFrom(_, _)
WinnerFrom(sq, k) ==
  IF k > Len(WINNING_LINES) THEN NullWinner
  ELSE IF LineMatches(sq, WINNING_LINES[k])
       THEN [player |-> sq[WINNING_LINES[k][1]], line |-> WINNING_LINES[k]]
       ELSE WinnerFrom(sq, k + 1)

\* variant: no line is ever reported
calculateWinner_NoLine(sq) == NullWinner

\* variant: the last matching line is returned instead of the first
calculateWinner_LastMatch(sq) ==
  LET idx == {k \in 1 .. Len(WINNING_LINES) :
                LineMatches(sq, WINNING_LINES[k])}
      last == CHOOSE k \in idx : \A j \in idx : j <= k
  IN IF idx = {} THEN NullWinner
     ELSE [player |-> sq[WINNING_LINES[last][1]],
           line |-> WINNING_LINES[last]]

calculateWinner(sq) == WinnerFrom(sq, 1)

\* variant: some() instead of every()
IsDrawOf_Some(sq, w) == (\E i \in Cells : Truthy(sq[i])) /\ w = NullWinner

\* squares.every(Boolean) && !winnerInfo
IsDrawOf(sq, w) == (\A i \in Cells : Truthy(sq[i])) /\ w = NullWinner

\* Boolean(winnerInfo) || isDraw
IsRoundOverOf(w, d) == w # NullWinner \/ d

EmptyBoard == [i \in Cells |-> Null]
ZeroScores == [X |-> 0, O |-> 0, draws |-> 0]

VARIABLES
  \* useState hooks
  squares, isXNext, scores, gameStarted, hasRecordedResult, volume,
  isAudioModalOpen, isConfirmResetOpen, hasActiveAudio,
  \* values derived during render
  winnerInfo, isDraw,
  \* useRef hooks and the audio backend
  hasAudioClass, ctxStart, audioCtx, audioUnlocked, masterGain,
  backgroundNodes, playing,
  \* scheduler: promise callbacks, cleanup timers, passive effects to flush,
  \* and the cell of a click handler that has not yet queued its updates
  promises, timers, pendingEffects, clicking,
  \* playCue request made by the last step
  cue,
  \* history: placements since the last board reset, the scores at
  \* the last board reset, the last operation
  placed, scoresAtReset, lastOp

hookVars == <<squares, isXNext, scores, gameStarted, hasRecordedResult>>
uiVars == <<volume, isAudioModalOpen, isConfirmResetOpen, hasActiveAudio>>
renderVars == <<winnerInfo, isDraw>>
refVars == <<hasAudioClass, ctxStart, audioCtx, audioUnlocked, masterGain,
             backgroundNodes, playing>>
schedVars == <<promises, timers, pendingEffects, clicking>>
histVars == <<placed, scoresAtReset, lastOp>>
vars == <<hookVars, uiVars, renderVars, refVars, schedVars, cue, histVars>>

TotalScore(s) == s.X + s.O + s.draws

\* ------------------------------------------------------------ construction
InitHooks ==
  /\ squares = EmptyBoard
  /\ isXNext = TRUE
  /\ scores = ZeroScores
  /\ gameStarted = FALSE
  /\ hasRecordedResult = FALSE
  /\ volume = 70
  /\ isAudioModalOpen = FALSE
  /\ isConfirmResetOpen = FALSE
  /\ hasActiveAudio = FALSE

InitRefs ==
  /\ audioCtx = Null
  /\ audioUnlocked = FALSE
  /\ masterGain = FALSE
  /\ backgroundNodes = 0
  /\ playing = {}

InitSched ==
  /\ promises = << >>
  /\ timers = 0
  /\ pendingEffects = EffectNames
  /\ clicking = << >>
  /\ cue = "none"

InitHist ==
  /\ placed = 0
  /\ scoresAtReset = ZeroScores
  /\ lastOp = "mount"

InitRender ==
  /\ winnerInfo = calculateWinner(squares)
  /\ isDraw = IsDrawOf(squares, winnerInfo)

\* the component as mounted in a browser without the Web Audio API
Init ==
  /\ InitHooks /\ InitRefs /\ InitSched /\ InitHist /\ InitRender
  /\ hasAudioClass = FALSE
  /\ ctxStart = {}

\* ------------------------------------------------------------- scheduling
\* a promise callback whose promise is already settled runs as a microtask
Settled(p) == p.settle # "resume"
HasSettled == \E k \in 1 .. Len(promises) : Settled(promises[k])
HasResume == \E k \in 1 .. Len(promises) : ~Settled(promises[k])
FirstSettled == CHOOSE k \in 1 .. Len(promises) :
  Settled(promises[k]) /\ \A j \in 1 .. (k - 1) : ~Settled(promises[j])
FirstResume == CHOOSE k \in 1 .. Len(promises) :
  ~Settled(promises[k]) /\ \A j \in 1 .. (k - 1) : Settled(promises[j])
Without(seq, k) == SubSeq(seq, 1, k - 1) \o SubSeq(seq, k + 1, Len(seq))

\* nothing is left to run before the next event is dispatched
Quiescent == pendingEffects = {} /\ ~HasSettled /\ clicking = << >>

\* the passive effects whose dependency lists changed in this commit
Scheduled ==
  (IF volume' # volume THEN {"syncUnlock"} ELSE {})
  \cup (IF gameStarted' # gameStarted THEN {"stopWhenIdle"} ELSE {})
  \cup (IF \/ winnerInfo' # winnerInfo
           \/ isDraw' # isDraw
           \/ hasRecordedResult' # hasRecordedResult
           \/ gameStarted' # gameStarted
           \/ volume' # volume
        THEN {"recordResult"} ELSE {})

\* re-render after the updates of a step: winnerInfo, isDraw, and the
\* effects to flush (base: the effects still waiting from before); the
\* handler or callback that queued the updates has returned
Commit(base) ==
  /\ winnerInfo' = calculateWinner(squares')
  /\ isDraw' = IsDrawOf(squares', winnerInfo')
  /\ pendingEffects' = base \cup Scheduled
  /\ clicking' = << >>

\* ------------------------------------------------------------------ audio
\* the states in which new AudioContextClass() may come up in this browser
NewCtxStates == IF hasAudioClass THEN ctxStart ELSE {Null}

\* audioCtxRef.current after the first lines of unlockAudio; st is the state
\* in which the browser creates a new context
CtxAfterUnlock(st) ==
  IF hasAudioClass /\ audioCtx = Null THEN st ELSE audioCtx

\* how the promise returned by unlockAudio settles
UnlockSettle(ctx) ==
  IF ~hasAudioClass THEN "false"
  ELSE IF ctx = "running" THEN "true" ELSE "resume"

\* unlockAudio().then(callback of the given kind), appended to base
UnlockAudio(kind, st, base) ==
  /\ audioCtx' = CtxAfterUnlock(st)
  /\ audioUnlocked' =
       (audioUnlocked \/ (hasAudioClass /\ audioCtx' = "running"))
  /\ masterGain' =
       (masterGain \/ (hasAudioClass /\ audioCtx' = "running"))
  /\ promises' =
       Append(base, [kind |-> kind, settle |-> UnlockSettle(audioCtx')])

\* playTone: what it appends to the promise list (base) for a context ctx
ToneProm(ctx, base) ==
  IF ctx = "suspended"
  THEN Append(base, [kind |-> "tone", settle |-> "resume"])
  ELSE base

\* playTone: audioUnlockedRef after the call
ToneUnlocked(ctx, u) == u \/ ctx = "running"

FreeSets == (1 .. MaxSets) \ playing

\* startBackgroundMusic with context ctx
StartMusic(ctx) ==
  IF ctx = Null \/ backgroundNodes # 0
  THEN /\ UNCHANGED <<backgroundNodes, playing, hasActiveAudio>>
       /\ masterGain' = masterGain
  ELSE /\ FreeSets # {}
       /\ backgroundNodes' =
            CHOOSE id \in FreeSets : \A j \in FreeSets : id <= j
       /\ playing' = playing \cup {backgroundNodes'}
       /\ hasActiveAudio' = TRUE
       /\ masterGain' = TRUE

\* stopBackgroundMusic
StopMusic ==
  IF audioCtx = Null \/ backgroundNodes = 0
  THEN /\ playing' = playing \ {backgroundNodes}
       /\ backgroundNodes' = 0
       /\ timers' = timers
  ELSE /\ playing' = playing \ {backgroundNodes}
       /\ backgroundNodes' = backgroundNodes
       /\ timers' = timers + 1

\* ------------------------------------------------------------- game state
\* variant: the mark does not follow the turn flag
MarkFor_AlwaysX(xNext) == "X"

\* isXNext ? 'X' : 'O'
MarkFor(xNext) == IF xNext THEN "X" ELSE "O"

\* variant: the guard does not look at the clicked cell
ClickIgnored_NoOccupied(index) ==
  \/ ~gameStarted
  \/ winnerInfo # NullWinner
  \/ isDraw

\* variant: a click is also ignored while there is no audio context
ClickIgnored_NeedsAudio(index) ==
  \/ ~gameStarted
  \/ Truthy(squares[index])
  \/ winnerInfo # NullWinner
  \/ isDraw
  \/ audioCtx = Null

\* the guard of handleSquareClick: the click is ignored
ClickIgnored(index) ==
  \/ ~gameStarted
  \/ Truthy(squares[index])
  \/ winnerInfo # NullWinner
  \/ isDraw

\* variant: the updater starts from a fresh array instead of a copy
PlaceOn_Fresh(prevSquares, index, xNext) ==
  [i \in Cells |-> IF i = index THEN MarkFor(xNext) ELSE Null]

\* variant: the updater writes the mark of the other player
PlaceOn_OtherMark(prevSquares, index, xNext) ==
  [prevSquares EXCEPT ![index] = MarkFor(~xNext)]

\* the updater passed to setSquares
PlaceOn(prevSquares, index, xNext) ==
  [prevSquares EXCEPT ![index] = MarkFor(xNext)]

\* variant: the turn is not handed back to X
resetBoard_KeepTurn ==
  /\ squares' = EmptyBoard
  /\ isXNext' = isXNext
  /\ hasRecordedResult' = FALSE

\* variant: only the first cell is emptied
resetBoard_FirstCell ==
  /\ squares' = [squares EXCEPT ![0] = Null]
  /\ isXNext' = TRUE
  /\ hasRecordedResult' = FALSE

resetBoard ==
  /\ squares' = EmptyBoard
  /\ isXNext' = TRUE
  /\ hasRecordedResult' = FALSE

\* variant: the turn is not handed to the other player
handleSquareClick_KeepTurn(index) ==
  /\ Quiescent
  /\ IF ClickIgnored(index)
     THEN /\ lastOp' = "reject"
          /\ cue' = "none"
          /\ UNCHANGED <<hookVars, uiVars, renderVars, refVars, schedVars,
                         placed, scoresAtReset>>
     ELSE /\ TotalScore(scores) < MaxRounds
          /\ Len(promises) < MaxPending
          /\ \E st \in NewCtxStates : UnlockAudio("move", st, promises)
          /\ squares' = PlaceOn(squares, index, isXNext)
          /\ isXNext' = isXNext
          /\ placed' = placed + 1
          /\ lastOp' = "place"
          /\ cue' = "none"
          /\ UNCHANGED <<scores, gameStarted, hasRecordedResult, uiVars,
                         hasAudioClass, ctxStart, backgroundNodes, playing,
                         timers, scoresAtReset>>
          /\ Commit({})

handleSquareClick(index) ==
  /\ Quiescent
  /\ IF ClickIgnored(index)
     THEN /\ lastOp' = "reject"
          /\ cue' = "none"
          /\ UNCHANGED <<hookVars, uiVars, renderVars, refVars, schedVars,
                         placed, scoresAtReset>>
     ELSE /\ TotalScore(scores) < MaxRounds
          /\ Len(promises) < MaxPending
          /\ \E st \in NewCtxStates : UnlockAudio("move", st, promises)
          /\ squares' = PlaceOn(squares, index, isXNext)
          /\ isXNext' = ~isXNext
          /\ placed' = placed + 1
          /\ lastOp' = "place"
          /\ cue' = "none"
          /\ UNCHANGED <<scores, gameStarted, hasRecordedResult, uiVars,
                         hasAudioClass, ctxStart, backgroundNodes, playing,
                         timers, scoresAtReset>>
          /\ Commit({})

\* variant: the board of the game before is kept
handleStartGame_KeepBoard ==
  /\ Quiescent
  /\ Len(promises) < MaxPending
  /\ \E st \in NewCtxStates : UnlockAudio("music", st, promises)
  /\ gameStarted' = TRUE
  /\ placed' = 0
  /\ scoresAtReset' = scores
  /\ lastOp' = "start"
  /\ cue' = "none"
  /\ UNCHANGED <<squares, isXNext, hasRecordedResult, scores, uiVars,
                 hasAudioClass, ctxStart, backgroundNodes, playing, timers>>
  /\ Commit({})

handleStartGame ==
  /\ Quiescent
  /\ Len(promises) < MaxPending
  /\ \E st \in NewCtxStates : UnlockAudio("music", st, promises)
  /\ gameStarted' = TRUE
  /\ resetBoard
  /\ placed' = 0
  /\ scoresAtReset' = scores
  /\ lastOp' = "start"
  /\ cue' = "none"
  /\ UNCHANGED <<scores, uiVars, hasAudioClass, ctxStart, backgroundNodes,
                 playing, timers>>
  /\ Commit({})

\* variant: a new round also clears the scoreboard
handleNewRound_ClearsScores ==
  /\ Quiescent
  /\ gameStarted
  /\ Len(promises) < MaxPending
  /\ \E st \in NewCtxStates : UnlockAudio("music", st, promises)
  /\ resetBoard
  /\ scores' = ZeroScores
  /\ placed' = 0
  /\ scoresAtReset' = scores
  /\ lastOp' = "newRound"
  /\ cue' = "none"
  /\ UNCHANGED <<gameStarted, uiVars, hasAudioClass, ctxStart,
                 backgroundNodes, playing, timers>>
  /\ Commit({})

\* variant: the early return on !gameStarted is missing
handleNewRound_NoGuard ==
  /\ Quiescent
  /\ Len(promises) < MaxPending
  /\ \E st \in NewCtxStates : UnlockAudio("music", st, promises)
  /\ resetBoard
  /\ placed' = 0
  /\ scoresAtReset' = scores
  /\ lastOp' = "newRound"
  /\ cue' = "none"
  /\ UNCHANGED <<scores, gameStarted, uiVars, hasAudioClass,
                 ctxStart, backgroundNodes, playing, timers>>
  /\ Commit({})

handleNewRound ==
  /\ Quiescent
  /\ IF ~gameStarted
     THEN /\ lastOp' = "newRoundIgnored"
          /\ cue' = "none"
          /\ UNCHANGED <<hookVars, uiVars, renderVars, refVars, schedVars,
                         placed, scoresAtReset>>
     ELSE /\ Len(promises) < MaxPending
          /\ \E st \in NewCtxStates : UnlockAudio("music", st, promises)
          /\ resetBoard
          /\ placed' = 0
          /\ scoresAtReset' = scores
          /\ lastOp' = "newRound"
          /\ cue' = "none"
          /\ UNCHANGED <<scores, gameStarted, uiVars, hasAudioClass,
                         ctxStart, backgroundNodes, playing, timers>>
          /\ Commit({})

\* variant: the scores are left as they are
handleResetAll_KeepScores ==
  /\ resetBoard
  /\ StopMusic
  /\ gameStarted' = FALSE
  /\ scores' = scores

\* the body of handleResetAll
handleResetAll ==
  /\ resetBoard
  /\ StopMusic
  /\ gameStarted' = FALSE
  /\ scores' = ZeroScores

\* variant: opening the dialog already clears the scoreboard
handleRequestReset_ClearsScores ==
  /\ Quiescent
  /\ isConfirmResetOpen' = TRUE
  /\ scores' = ZeroScores
  /\ lastOp' = "request"
  /\ cue' = "none"
  /\ UNCHANGED <<squares, isXNext, gameStarted, hasRecordedResult, volume,
                 isAudioModalOpen, hasActiveAudio, refVars, promises, timers,
                 placed, scoresAtReset>>
  /\ Commit({})

handleRequestReset ==
  /\ Quiescent
  /\ isConfirmResetOpen' = TRUE
  /\ lastOp' = "request"
  /\ cue' = "none"
  /\ UNCHANGED <<hookVars, volume, isAudioModalOpen, hasActiveAudio, refVars,
                 promises, timers, placed, scoresAtReset>>
  /\ Commit({})

handleConfirmReset ==
  /\ Quiescent
  /\ timers + 2 <= MaxTimers
  /\ handleResetAll
  /\ isConfirmResetOpen' = FALSE
  /\ placed' = 0
  /\ scoresAtReset' = ZeroScores
  /\ lastOp' = "resetAll"
  /\ cue' = "none"
  /\ UNCHANGED <<volume, isAudioModalOpen, hasActiveAudio, hasAudioClass,
                 ctxStart, audioCtx, audioUnlocked, masterGain, promises>>
  /\ Commit({})

handleCancelReset ==
  /\ Quiescent
  /\ isConfirmResetOpen' = FALSE
  /\ lastOp' = "cancel"
  /\ cue' = "none"
  /\ UNCHANGED <<hookVars, volume, isAudioModalOpen, hasActiveAudio, refVars,
                 promises, timers, placed, scoresAtReset>>
  /\ Commit({})

handleVolumeChange(level) ==
  /\ Quiescent
  /\ volume' = level
  /\ lastOp' = "volume"
  /\ cue' = "none"
  /\ UNCHANGED <<hookVars, isAudioModalOpen, isConfirmResetOpen,
                 hasActiveAudio, refVars, promises, timers, placed,
                 scoresAtReset>>
  /\ Commit({})

\* ---------------------------------------------------------- passive effects
\* variant: a win is credited to the player whose turn is next
RecordScores_NextPlayer ==
  IF ~gameStarted \/ hasRecordedResult THEN scores
  ELSE IF winnerInfo # NullWinner
       THEN [scores EXCEPT ![MarkFor(isXNext)] = @ + 1]
       ELSE IF isDraw THEN [scores EXCEPT !.draws = @ + 1]
            ELSE scores

\* the score-recording effect: the scores it leaves
RecordScores ==
  IF ~gameStarted \/ hasRecordedResult THEN scores
  ELSE IF winnerInfo # NullWinner
       THEN [scores EXCEPT ![winnerInfo.player] = @ + 1]
       ELSE IF isDraw THEN [scores EXCEPT !.draws = @ + 1]
            ELSE scores

\* the score-recording effect: the cue it plays
RecordCue ==
  IF ~gameStarted \/ hasRecordedResult THEN "none"
  ELSE IF winnerInfo # NullWinner THEN "win"
       ELSE IF isDraw THEN "draw" ELSE "none"

\* variant: the result-recorded flag is never raised
RecordFlag_NeverSet == hasRecordedResult

\* the score-recording effect: hasRecordedResult after it
RecordFlag ==
  IF ~gameStarted \/ hasRecordedResult THEN hasRecordedResult
  ELSE IF winnerInfo # NullWinner \/ isDraw THEN TRUE
       ELSE hasRecordedResult

\* flush of the passive effects of the last commit, in declaration order
FlushPassiveEffects ==
  /\ pendingEffects # {}
  /\ ~HasSettled
  /\ clicking = << >>
  \* effect of lines 364-368
  /\ IF "stopWhenIdle" \in pendingEffects /\ ~gameStarted
     THEN StopMusic
     ELSE UNCHANGED <<backgroundNodes, playing, timers>>
  \* effect of lines 385-404
  /\ IF "recordResult" \in pendingEffects
     THEN /\ scores' = RecordScores
          /\ hasRecordedResult' = RecordFlag
          /\ cue' = RecordCue
     ELSE /\ UNCHANGED <<scores, hasRecordedResult>>
          /\ cue' = "none"
  /\ promises' =
       IF cue' # "none" THEN ToneProm(audioCtx, promises) ELSE promises
  \* effect of lines 117-122, and the refs written by playTone
  /\ audioUnlocked' =
       (\/ audioUnlocked
        \/ ("syncUnlock" \in pendingEffects /\ audioCtx = "running")
        \/ (cue' # "none" /\ ToneUnlocked(audioCtx, FALSE)))
  /\ masterGain' =
       (\/ masterGain
        \/ ("syncUnlock" \in pendingEffects /\ audioCtx = "running")
        \/ (cue' # "none" /\ audioCtx # Null))
  /\ lastOp' = "effects"
  /\ UNCHANGED <<squares, isXNext, gameStarted, uiVars, hasAudioClass,
                 ctxStart, audioCtx, placed, scoresAtReset>>
  /\ Commit({})

\* ------------------------------------------------------- promise callbacks
\* the callback registered by .then on the promise of unlockAudio (kinds
\* move, music, modal) or on ctx.resume() in playTone (kind tone), run with
\* the context in state ctx; base is the promise list without this promise
ThenCallback(kind, unlocked, ctx, base) ==
  /\ cue' = IF kind = "move" /\ unlocked THEN "move" ELSE "none"
  /\ promises' = IF cue' = "move" THEN ToneProm(ctx, base) ELSE base
  /\ audioUnlocked' =
       (\/ audioUnlocked
        \/ (unlocked /\ ctx = "running")
        \/ (cue' = "move" /\ ToneUnlocked(ctx, FALSE)))
  /\ IF kind = "music" /\ unlocked
     THEN StartMusic(ctx)
     ELSE /\ UNCHANGED <<backgroundNodes, playing, hasActiveAudio>>
          /\ masterGain' =
               (\/ masterGain
                \/ (unlocked /\ kind # "tone" /\ ctx = "running")
                \/ (cue' = "move" /\ ctx # Null))
  /\ isAudioModalOpen' = (isAudioModalOpen \/ (kind = "modal" /\ unlocked))

\* a callback whose promise was settled when it was registered
PromiseThen ==
  /\ HasSettled
  /\ clicking = << >>
  /\ ThenCallback(promises[FirstSettled].kind,
                  promises[FirstSettled].settle = "true",
                  audioCtx,
                  Without(promises, FirstSettled))
  /\ lastOp' = "then"
  /\ UNCHANGED <<hookVars, volume, isConfirmResetOpen, hasAudioClass,
                 ctxStart, audioCtx, timers, placed, scoresAtReset>>
  /\ Commit(pendingEffects)

\* ctx.resume() settles: resolved (the context runs) or rejected
ResumeSettle(resolved) ==
  /\ Quiescent
  /\ HasResume
  /\ audioCtx' = IF resolved THEN "running" ELSE audioCtx
  /\ ThenCallback(promises[FirstResume].kind,
                  resolved,
                  audioCtx',
                  Without(promises, FirstResume))
  /\ lastOp' = "resume"
  /\ UNCHANGED <<hookVars, volume, isConfirmResetOpen, hasAudioClass,
                 ctxStart, timers, placed, scoresAtReset>>
  /\ Commit({})

\* the setTimeout callback of stopBackgroundMusic
CleanupTimer ==
  /\ Quiescent
  /\ timers > 0
  /\ timers' = timers - 1
  /\ backgroundNodes' = 0
  /\ hasActiveAudio' = FALSE
  /\ lastOp' = "timer"
  /\ cue' = "none"
  /\ UNCHANGED <<hookVars, volume, isAudioModalOpen, isConfirmResetOpen,
                 hasAudioClass, ctxStart, audioCtx, audioUnlocked, masterGain,
                 playing, promises, placed, scoresAtReset>>
  /\ Commit({})

handleOpenAudioModal ==
  /\ Quiescent
  /\ IF ~hasActiveAudio
     THEN /\ lastOp' = "openIgnored"
          /\ cue' = "none"
          /\ UNCHANGED <<hookVars, uiVars, renderVars, refVars, schedVars,
                         placed, scoresAtReset>>
     ELSE /\ Len(promises) < MaxPending
          /\ \E st \in NewCtxStates : UnlockAudio("modal", st, promises)
          /\ lastOp' = "open"
          /\ cue' = "none"
          /\ UNCHANGED <<hookVars, uiVars, hasAudioClass, ctxStart,
                         backgroundNodes, playing, timers, placed,
                         scoresAtReset>>
          /\ Commit({})

handleCloseAudioModal ==
  /\ Quiescent
  /\ isAudioModalOpen' = FALSE
  /\ lastOp' = "close"
  /\ cue' = "none"
  /\ UNCHANGED <<hookVars, volume, isConfirmResetOpen, hasActiveAudio,
                 refVars, promises, timers, placed, scoresAtReset>>
  /\ Commit({})

\* ---------------------------------------------------------- specifications
\* the game engine: the intents that reach the board and the scores, in a
\* browser without the Web Audio API
Next ==
  \/ \E index \in Cells : handleSquareClick(index)
  \/ handleStartGame
  \/ handleNewRound
  \/ handleConfirmReset
  \/ PromiseThen
  \/ FlushPassiveEffects

Spec == Init /\ [][Next]_vars

\* ------------------------------------------- calculateWinner as a function
AllBoards == [Cells -> {Null, "X", "O"}]

\* any board handed to the render of the component
InitEval ==
  /\ squares \in AllBoards
  /\ isXNext = TRUE
  /\ scores = ZeroScores
  /\ gameStarted = FALSE
  /\ hasRecordedResult = FALSE
  /\ volume = 70
  /\ isAudioModalOpen = FALSE
  /\ isConfirmResetOpen = FALSE
  /\ hasActiveAudio = FALSE
  /\ InitRefs /\ InitSched
  /\ placed = 0
  /\ scoresAtReset = ZeroScores
  /\ lastOp = "input"
  /\ winnerInfo = NullWinner
  /\ isDraw = FALSE
  /\ hasAudioClass = FALSE
  /\ ctxStart = {}

\* the render of lines 69-71 on that board
Evaluate ==
  /\ lastOp = "input"
  /\ winnerInfo' = calculateWinner(squares)
  /\ isDraw' = IsDrawOf(squares, winnerInfo')
  /\ lastOp' = "evaluate"
  /\ UNCHANGED <<hookVars, uiVars, refVars, schedVars, cue, placed,
                 scoresAtReset>>

NextEval == Evaluate

SpecEval == InitEval /\ [][NextEval]_vars

\* ------------------------------------------------ the whole application
\* click sequences of three rounds: X wins, O wins, draw
Scripts ==
  { <<0, 3, 1, 4, 2>>,
    <<0, 3, 1, 4, 8, 5>>,
    <<0, 1, 2, 4, 3, 5, 7, 6, 8>> }

\* the board after the first n clicks of a script
BoardAfter(script, n) ==
  [i \in Cells |->
     IF \E k \in 1 .. n : script[k] = i
     THEN MarkFor((CHOOSE k \in 1 .. n : script[k] = i) % 2 = 1)
     ELSE Null]

\* the cells clicked in a state: the next cell of a script that the board
\* follows, and cell 0 (a click that is rejected once the cell is filled)
ScriptedCells ==
  {0} \cup
  {script[placed + 1] : script \in
     {sc \in Scripts : placed < Len(sc) /\ BoardAfter(sc, placed) = squares}}

\* the component as mounted in a browser with the Web Audio API whose
\* contexts start running
InitApp ==
  /\ InitHooks /\ InitRefs /\ InitSched /\ InitHist /\ InitRender
  /\ hasAudioClass = TRUE
  /\ ctxStart = {"running"}

NextApp ==
  \/ \E index \in ScriptedCells : handleSquareClick(index)
  \/ handleStartGame
  \/ handleNewRound
  \/ handleRequestReset
  \/ handleConfirmReset
  \/ handleCancelReset
  \/ \E level \in VolumeLevels : handleVolumeChange(level)
  \/ handleOpenAudioModal
  \/ handleCloseAudioModal
  \/ PromiseThen
  \/ CleanupTimer
  \/ FlushPassiveEffects

SpecApp == InitApp /\ [][NextApp]_vars

\* ------------------------------------------ the audio backends one by one
\* the browsers the component may be mounted in: no Web Audio API, contexts
\* that start running, contexts that start suspended
Backends ==
  { [class |-> FALSE, start |-> {}],
    [class |-> TRUE, start |-> {"running"}],
    [class |-> TRUE, start |-> {"suspended"}] }

InitAudio ==
  /\ InitHooks /\ InitRefs /\ InitSched /\ InitHist /\ InitRender
  /\ \E b \in Backends :
       /\ hasAudioClass = b.class
       /\ ctxStart = b.start

\* the intents that reach the game state, and everything the audio backend
\* does in between: resume() resolved or rejected at any later time, the
\* promise callbacks, the cleanup timers
NextAudio ==
  \/ \E index \in ScriptedCells : handleSquareClick(index)
  \/ handleStartGame
  \/ handleNewRound
  \/ handleConfirmReset
  \/ PromiseThen
  \/ \E resolved \in BOOLEAN : ResumeSettle(resolved)
  \/ CleanupTimer
  \/ FlushPassiveEffects

SpecAudio == InitAudio /\ [][NextAudio]_vars

\* ------------------------------------ the second version of the component
\* ensureAudioContext of lines 706-717: audioCtxRef.current after the call
ensureAudioContextV2(st) == CtxAfterUnlock(st)

\* handleSquareClick of lines 774-785 up to the call of playMoveSound: the
\* guard, ensureAudioContext and the move cue; the updates are still to come
handleSquareClickV2_playMoveSound(index) ==
  /\ Quiescent
  /\ IF ClickIgnored(index)
     THEN /\ lastOp' = "reject"
          /\ cue' = "none"
          /\ UNCHANGED <<hookVars, uiVars, renderVars, refVars, schedVars,
                         placed, scoresAtReset>>
     ELSE /\ TotalScore(scores) < MaxRounds
          /\ \E st \in NewCtxStates : audioCtx' = ensureAudioContextV2(st)
          /\ cue' = "move"
          /\ clicking' = <<index>>
          /\ lastOp' = "click"
          /\ UNCHANGED <<hookVars, uiVars, renderVars, hasAudioClass,
                         ctxStart, audioUnlocked, masterGain, backgroundNodes,
                         playing, promises, timers, pendingEffects, placed,
                         scoresAtReset>>

\* the rest of that handler: setSquares, setIsXNext, and the commit
handleSquareClickV2_setSquares ==
  /\ clicking # << >>
  /\ squares' = PlaceOn(squares, clicking[1], isXNext)
  /\ isXNext' = ~isXNext
  /\ placed' = placed + 1
  /\ lastOp' = "place"
  /\ cue' = "none"
  /\ UNCHANGED <<scores, gameStarted, hasRecordedResult, uiVars, refVars,
                 promises, timers, scoresAtReset>>
  /\ Commit({})

\* handleStartGame of lines 792-796
handleStartGameV2 ==
  /\ Quiescent
  /\ \E st \in NewCtxStates : audioCtx' = ensureAudioContextV2(st)
  /\ gameStarted' = TRUE
  /\ resetBoard
  /\ placed' = 0
  /\ scoresAtReset' = scores
  /\ lastOp' = "start"
  /\ cue' = "none"
  /\ UNCHANGED <<scores, uiVars, hasAudioClass, ctxStart, audioUnlocked,
                 masterGain, backgroundNodes, playing, promises, timers>>
  /\ Commit({})

\* handleNewRound of lines 798-802
handleNewRoundV2 ==
  /\ Quiescent
  /\ IF ~gameStarted
     THEN /\ lastOp' = "newRoundIgnored"
          /\ cue' = "none"
          /\ UNCHANGED <<hookVars, uiVars, renderVars, refVars, schedVars,
                         placed, scoresAtReset>>
     ELSE /\ \E st \in NewCtxStates : audioCtx' = ensureAudioContextV2(st)
          /\ resetBoard
          /\ placed' = 0
          /\ scoresAtReset' = scores
          /\ lastOp' = "newRound"
          /\ cue' = "none"
          /\ UNCHANGED <<scores, gameStarted, uiVars, hasAudioClass,
                         ctxStart, audioUnlocked, masterGain,
                         backgroundNodes, playing, promises, timers>>
          /\ Commit({})

\* handleResetAll of lines 804-808
handleResetAllV2 ==
  /\ Quiescent
  /\ resetBoard
  /\ gameStarted' = FALSE
  /\ scores' = ZeroScores
  /\ placed' = 0
  /\ scoresAtReset' = ZeroScores
  /\ lastOp' = "resetAll"
  /\ cue' = "none"
  /\ UNCHANGED <<uiVars, refVars, promises, timers>>
  /\ Commit({})

\* the score-recording effect of lines 745-763, the only effect of the
\* second version
FlushPassiveEffectsV2 ==
  /\ pendingEffects # {}
  /\ clicking = << >>
  /\ scores' = RecordScores
  /\ hasRecordedResult' = RecordFlag
  /\ cue' = RecordCue
  /\ \E st \in NewCtxStates :
       audioCtx' = IF cue' # "none" THEN ensureAudioContextV2(st)
                   ELSE audioCtx
  /\ lastOp' = "effects"
  /\ UNCHANGED <<squares, isXNext, gameStarted, uiVars, hasAudioClass,
                 ctxStart, audioUnlocked, masterGain, backgroundNodes,
                 playing, promises, timers, placed, scoresAtReset>>
  /\ Commit({})

\* the second version as mounted in a browser with the Web Audio API
InitV2 ==
  /\ InitHooks /\ InitRefs /\ InitHist /\ InitRender
  /\ promises = << >>
  /\ timers = 0
  /\ pendingEffects = {"recordResult"}
  /\ clicking = << >>
  /\ cue = "none"
  /\ hasAudioClass = TRUE
  /\ ctxStart = {"running"}

NextV2 ==
  \/ \E index \in Cells : handleSquareClickV2_playMoveSound(index)
  \/ handleSquareClickV2_setSquares
  \/ handleStartGameV2
  \/ handleNewRoundV2
  \/ handleResetAllV2
  \/ FlushPassiveEffectsV2

SpecV2 == InitV2 /\ [][NextV2]_vars

\* ------------------------------------------------------------- properties
\* the three cells of a triple hold the same non-empty mark
Completed(sq, line) ==
  /\ sq[line[1]] \in {"X", "O"}
  /\ sq[line[2]] = sq[line[1]]
  /\ sq[line[3]] = sq[line[1]]

CompletedIdx(sq) == {k \in 1 .. 8 : Completed(sq, WINNING_LINES[k])}
FirstCompleted(sq) ==
  CHOOSE k \in CompletedIdx(sq) : \A j \in CompletedIdx(sq) : k <= j
Full(sq) == \A i \in Cells : sq[i] \in {"X", "O"}
Won(m, line) == [player |-> m, line |-> line]

\* C1 as stated: for every board and every completed triple L with mark m,
\* calculateWinner returns Won with player m and with L as the winning line.
C1_EveryCompletedLineReturned ==
  lastOp = "evaluate" =>
    \A k \in 1 .. 8 :
      Completed(squares, WINNING_LINES[k]) =>
        winnerInfo = Won(squares[WINNING_LINES[k][1]], WINNING_LINES[k])

\* C1 amended: for every board with a completed triple, calculateWinner
\* returns Won with the first completed triple in WINNING_LINES order as the
\* winning line and the mark on that triple as the player; this is L and m
\* when L is the only completed triple.
C1_FirstCompletedLineReturned ==
  lastOp = "evaluate" =>
    \A k \in 1 .. 8 :
      Completed(squares, WINNING_LINES[k]) =>
        /\ winnerInfo # NullWinner
        /\ winnerInfo =
             Won(squares[WINNING_LINES[FirstCompleted(squares)][1]],
                 WINNING_LINES[FirstCompleted(squares)])
        /\ CompletedIdx(squares) = {k} =>
             winnerInfo = Won(squares[WINNING_LINES[k][1]], WINNING_LINES[k])

\* C1 witness: a board whose only completed triple is the last one of
\* WINNING_LINES has been evaluated, and that triple came back
C1_Witness ==
  /\ lastOp = "evaluate"
  /\ CompletedIdx(squares) = {8}
  /\ squares[2] = "O"
  /\ winnerInfo = Won("O", <<2, 4, 6>>)

\* C2: a full board without a completed triple is a Draw (calculateWinner
\* null, isDraw true); a board without a completed triple and with an empty
\* cell is InProgress (neither winner nor draw).
C2_DrawOrInProgress ==
  (lastOp = "evaluate" /\ CompletedIdx(squares) = {}) =>
    /\ winnerInfo = NullWinner
    /\ Full(squares) => (isDraw /\ IsRoundOverOf(winnerInfo, isDraw))
    /\ ~Full(squares) => (~isDraw /\ ~IsRoundOverOf(winnerInfo, isDraw))

\* C2 witness: the full board X O X / X O O / O X X has been evaluated
C2_Witness ==
  /\ lastOp = "evaluate"
  /\ squares = [i \in Cells |->
       IF i \in {0, 2, 3, 7, 8} THEN "X" ELSE "O"]
  /\ winnerInfo = NullWinner
  /\ isDraw

\* the outcome of a board, read off the board itself
HasLine(sq) == CompletedIdx(sq) # {}
LineOf(sq, m) == \E k \in CompletedIdx(sq) : sq[WINNING_LINES[k][1]] = m
RoundOver(sq) == HasLine(sq) \/ Full(sq)
CountOf(sq, m) == Cardinality({i \in Cells : sq[i] = m})

\* the scores s with the result of a finished board added
Credited(s, sq) ==
  IF LineOf(sq, "X") THEN [s EXCEPT !.X = @ + 1]
  ELSE IF LineOf(sq, "O") THEN [s EXCEPT !.O = @ + 1]
  ELSE IF Full(sq) THEN [s EXCEPT !.draws = @ + 1]
  ELSE s

\* C4: after n successful placements since the last board reset the turn is
\* X's when n is even and O's when n is odd, and the n+1-st placement of a
\* round writes X when n is even and O when n is odd into one empty cell.
C4_TurnAlternates ==
  [][/\ isXNext <=> (placed % 2 = 0)
     /\ isXNext' <=> (placed' % 2 = 0)
     /\ placed' \in {0, placed, placed + 1}
     /\ squares' # squares =>
          \/ placed' = 0 /\ squares' = EmptyBoard
          \/ /\ placed' = placed + 1
             /\ \E i \in Cells :
                  /\ squares[i] = Null
                  /\ squares' = [squares EXCEPT ![i] =
                        IF placed % 2 = 0 THEN "X" ELSE "O"]
     /\ placed' = placed + 1 => squares' # squares]_vars

\* C4 witness: three marks have been placed in this round, X O X
C4_Witness ==
  /\ placed = 3
  /\ ~isXNext
  /\ CountOf(squares, "X") = 2
  /\ CountOf(squares, "O") = 1

\* C5: a click on a cell while the game is not started, the round is over
\* or the cell is occupied changes neither board, turn, scores, lifecycle
\* nor the result-recorded flag, and requests no move cue.
C5_RejectedClickIsNoOp ==
  [][\A i \in Cells :
       (/\ handleSquareClick(i)
        /\ (~gameStarted \/ RoundOver(squares) \/ squares[i] \in {"X", "O"}))
       => /\ UNCHANGED <<squares, isXNext, scores, gameStarted,
                         hasRecordedResult>>
          /\ promises' = promises
          /\ cue' # "move"]_vars

\* C5 witness: in a started, unfinished round a click was rejected (the
\* cell was occupied)
C5_Witness ==
  /\ lastOp = "reject"
  /\ gameStarted
  /\ ~RoundOver(squares)
  /\ placed >= 1

\* C6: a click on an empty cell of a started, unfinished round writes the
\* current player's mark into that cell only, flips the turn and leaves the
\* scores and the lifecycle as they are.
C6_PlacementFrame ==
  [][\A i \in Cells :
       (/\ handleSquareClick(i)
        /\ gameStarted /\ ~RoundOver(squares) /\ squares[i] = Null)
       => /\ squares'[i] = (IF isXNext THEN "X" ELSE "O")
          /\ \A j \in Cells \ {i} : squares'[j] = squares[j]
          /\ isXNext' = ~isXNext
          /\ scores' = scores
          /\ gameStarted' = gameStarted]_vars

\* C6 witness: a mark has just been placed on a board that held marks
C6_Witness ==
  /\ lastOp = "place"
  /\ placed = 4
  /\ CountOf(squares, "X") = 2
  /\ CountOf(squares, "O") = 2

\* C7: the step that records a finished round adds 1 to the counter of its
\* result (X, O or draws) and leaves the other two; once a finished round
\* is at rest its result is on the scoreboard; and newRound or resetAll on
\* a finished round finds it recorded.
C7_FinishedRoundRecorded ==
  [][/\ (~hasRecordedResult /\ hasRecordedResult') =>
          /\ gameStarted /\ RoundOver(squares)
          /\ scores' = Credited(scores, squares)
     /\ scores' # scores =>
          \/ scores' = ZeroScores
          \/ ~hasRecordedResult /\ hasRecordedResult'
     /\ (Quiescent /\ gameStarted /\ RoundOver(squares)) =>
          /\ hasRecordedResult
          /\ scores = Credited(scoresAtReset, squares)
     /\ ((handleNewRound \/ handleConfirmReset)
         /\ gameStarted /\ RoundOver(squares)) =>
          /\ hasRecordedResult
          /\ scores = Credited(scoresAtReset, squares)]_vars

\* C7 witness: a round won by O has been recorded and is at rest
C7_Witness ==
  /\ Quiescent
  /\ LineOf(squares, "O")
  /\ hasRecordedResult
  /\ scoresAtReset = ZeroScores
  /\ scores = [X |-> 0, O |-> 1, draws |-> 0]

\* C8: newRound in a started game empties the nine cells, gives the turn
\* to X and clears the result-recorded flag; scores and lifecycle stay.
C8_NewRoundResets ==
  [][(handleNewRound /\ gameStarted) =>
       /\ squares' = [i \in Cells |-> Null]
       /\ isXNext' = TRUE
       /\ hasRecordedResult' = FALSE
       /\ scores' = scores
       /\ gameStarted' = TRUE]_vars

\* C8 witness: a new round has just been started after a recorded win
C8_Witness ==
  /\ lastOp = "newRound"
  /\ scoresAtReset.X + scoresAtReset.O >= 1
  /\ squares = EmptyBoard
  /\ isXNext
  /\ gameStarted

\* C9: resetAll leaves an empty board, zero scores, lifecycle NotStarted,
\* turn X and a cleared result-recorded flag; while the game is not started
\* the scores stay zero, and a counter goes up only in a started game whose
\* round is over.
C9_ResetAll ==
  [][/\ handleConfirmReset =>
          /\ squares' = [i \in Cells |-> Null]
          /\ scores' = [X |-> 0, O |-> 0, draws |-> 0]
          /\ gameStarted' = FALSE
          /\ isXNext' = TRUE
          /\ hasRecordedResult' = FALSE
     /\ ~gameStarted' => scores' = [X |-> 0, O |-> 0, draws |-> 0]
     /\ TotalScore(scores') > TotalScore(scores) =>
          gameStarted /\ RoundOver(squares)]_vars

\* C9 witness: resetAll has just acted on a started game
C9_Witness ==
  /\ lastOp = "resetAll"
  /\ "recordResult" \in pendingEffects
  /\ scores = ZeroScores
  /\ ~gameStarted

\* a step that resets the board
BoardReset ==
  handleStartGame \/ (handleNewRound /\ gameStarted) \/ handleConfirmReset

\* C3: between two board resets the total X + O + draws goes up by at most
\* 1, only on a finished round, and by exactly 1 when the round is finished
\* at the next reset, however often the component re-renders and the
\* score-recording effect runs again.
C3_OneScorePerRound ==
  [][/\ TotalScore(scores) - TotalScore(scoresAtReset) \in {0, 1}
     /\ TotalScore(scores') - TotalScore(scoresAtReset') \in {0, 1}
     /\ ~RoundOver(squares) => TotalScore(scores) = TotalScore(scoresAtReset)
     /\ (BoardReset /\ RoundOver(squares)) =>
          TotalScore(scores) = TotalScore(scoresAtReset) + 1
     /\ (Quiescent /\ RoundOver(squares)) =>
          TotalScore(scores) = TotalScore(scoresAtReset) + 1]_vars

\* C3 witness: the score-recording effect has run again on a finished,
\* recorded round after a volume change and has added nothing
C3_Witness ==
  /\ lastOp = "effects"
  /\ cue = "none"
  /\ volume # 70
  /\ Quiescent
  /\ hasRecordedResult
  /\ Full(squares) /\ ~HasLine(squares)
  /\ scores = [X |-> 0, O |-> 0, draws |-> 1]
  /\ scoresAtReset = ZeroScores

\* C10: no step other than resetAll lowers one of the three counters, and
\* startGame and newRound leave the three counters as they are.
C10_ScoresPersist ==
  [][/\ ~handleConfirmReset =>
          /\ scores'.X >= scores.X
          /\ scores'.O >= scores.O
          /\ scores'.draws >= scores.draws
     /\ (handleStartGame \/ handleNewRound) => scores' = scores]_vars

\* C10 witness: a new round has begun and is at rest with the draw of the
\* round before still on the scoreboard
C10_Witness ==
  /\ Quiescent
  /\ gameStarted
  /\ squares = EmptyBoard
  /\ scoresAtReset = [X |-> 0, O |-> 0, draws |-> 1]
  /\ scores = scoresAtReset

\* C11: the board always has exactly 9 cells, and a cell that holds X or O
\* changes only in a step that is a board reset (startGame, newRound in a
\* started game, resetAll) and that empties all 9 cells at once.
C11_FilledCellsKept ==
  [][/\ DOMAIN squares = 0 .. 8
     /\ DOMAIN squares' = 0 .. 8
     /\ \A i \in Cells : squares'[i] \in {Null, "X", "O"}
     /\ (\E i \in Cells : squares[i] \in {"X", "O"} /\ squares'[i] # squares[i])
          => /\ BoardReset
             /\ \A j \in Cells : squares'[j] = Null]_vars

\* C11 witness: five marks have been placed one after the other in a
\* round that is still open, and all five are on the board
C11_Witness ==
  /\ lastOp = "place"
  /\ placed = 5
  /\ CountOf(squares, "X") = 3
  /\ CountOf(squares, "O") = 2
  /\ ~RoundOver(squares)

\* C12: newRound while the game is not started changes neither board, turn,
\* scores, lifecycle nor the result-recorded flag, registers no unlock
\* promise and leaves the audio context, the unlocked flag and the music as
\* they are.
C12_NewRoundNotStarted ==
  [][(handleNewRound /\ ~gameStarted) =>
       /\ UNCHANGED <<squares, isXNext, scores, gameStarted,
                      hasRecordedResult>>
       /\ UNCHANGED <<audioCtx, audioUnlocked, masterGain, backgroundNodes,
                      playing, hasActiveAudio, promises, timers>>]_vars

\* C12 witness: newRound was ignored after resetAll, with the audio context
\* of the game before still there
C12_Witness ==
  /\ lastOp = "newRoundIgnored"
  /\ ~gameStarted
  /\ audioCtx = "running"
  /\ audioUnlocked

\* C13: startGame from any state leaves 9 empty cells, the game started,
\* the turn with X and the result-recorded flag cleared; the render after it
\* sees no winner and no draw, so a click on any cell is accepted, and the
\* first mark placed on the board is X.
C13_StartGame ==
  [][/\ handleStartGame =>
          /\ \A i \in Cells : squares'[i] = Null
          /\ gameStarted'
          /\ isXNext'
          /\ ~hasRecordedResult'
          /\ winnerInfo' = NullWinner /\ ~isDraw'
     /\ \A i \in Cells :
          (handleSquareClick(i) /\ squares = EmptyBoard /\ gameStarted) =>
            squares' = [squares EXCEPT ![i] = "X"]]_vars

\* C13 witness: startGame has just acted on a started game whose round was
\* finished and recorded (the render changed, the lifecycle did not)
C13_Witness ==
  /\ lastOp = "start"
  /\ "recordResult" \in pendingEffects
  /\ "stopWhenIdle" \notin pendingEffects
  /\ scoresAtReset # ZeroScores
  /\ squares = EmptyBoard
  /\ gameStarted /\ isXNext /\ ~hasRecordedResult

\* C16: calculateWinner checks the triples in the order 012 345 678 036
\* 147 258 048 246; on a board with several completed triples it returns
\* the first completed one in that order with the mark on it; the result
\* depends on the board only; and a board with a completed triple is not a
\* draw, full or not.
C16_FirstInFixedOrder ==
  /\ WINNING_LINES = << <<0, 1, 2>>, <<3, 4, 5>>, <<6, 7, 8>>, <<0, 3, 6>>,
                        <<1, 4, 7>>, <<2, 5, 8>>, <<0, 4, 8>>, <<2, 4, 6>> >>
  /\ lastOp = "evaluate" =>
       /\ winnerInfo =
            (IF HasLine(squares)
             THEN Won(squares[WINNING_LINES[FirstCompleted(squares)][1]],
                      WINNING_LINES[FirstCompleted(squares)])
             ELSE NullWinner)
       /\ \A k \in CompletedIdx(squares) :
            \A j \in 1 .. (k - 1) :
              Completed(squares, WINNING_LINES[j]) =>
                winnerInfo.line # WINNING_LINES[k]
       /\ HasLine(squares) => (~isDraw /\ winnerInfo # NullWinner)

\* C16 witness: a full board with the completed triples 036 (X) and 147 (O)
\* has been evaluated: X on 036 is the winner, and it is no draw
C16_Witness ==
  /\ lastOp = "evaluate"
  /\ Full(squares)
  /\ CompletedIdx(squares) = {4, 5}
  /\ squares[0] = "X" /\ squares[1] = "O"
  /\ winnerInfo = Won("X", <<0, 3, 6>>)
  /\ ~isDraw

\* C17: no reachable board has a completed triple of X and one of O; a
\* placement that completes a triple completes one of the mark just placed;
\* the winner is the player whose turn is not next; and a win is credited to
\* the player who placed the last mark.
C17_WinnerPlacedLast ==
  [][/\ ~(LineOf(squares', "X") /\ LineOf(squares', "O"))
     /\ (squares' # squares /\ winnerInfo' # NullWinner) =>
          \E i \in Cells :
            /\ squares[i] = Null
            /\ squares'[i] = winnerInfo'.player
            /\ winnerInfo'.player = MarkFor(isXNext)
     /\ winnerInfo' # NullWinner => winnerInfo'.player = MarkFor(~isXNext')
     /\ scores'.X = scores.X + 1 => (~isXNext /\ LineOf(squares, "X"))
     /\ scores'.O = scores.O + 1 => (isXNext /\ LineOf(squares, "O"))]_vars

\* C17 witness: X has completed a triple with the fifth mark of the round
\* and the win is on the scoreboard
C17_Witness ==
  /\ Quiescent
  /\ placed = 5
  /\ winnerInfo # NullWinner /\ winnerInfo.player = "X"
  /\ ~isXNext
  /\ scores = [X |-> 1, O |-> 0, draws |-> 0]

\* C19: in every reachable state the number of X marks minus the number of
\* O marks is 0 or 1, and X is next exactly when the two numbers are equal.
C19_MarkCounts ==
  /\ CountOf(squares, "X") - CountOf(squares, "O") \in {0, 1}
  /\ isXNext <=> (CountOf(squares, "X") = CountOf(squares, "O"))

\* C19 witness: a board with four X and three O, O to move
C19_Witness ==
  /\ CountOf(squares, "X") = 4
  /\ CountOf(squares, "O") = 3
  /\ ~isXNext
  /\ gameStarted

\* C15: a move cue is requested only by a step that leaves board and turn
\* as they are and after which no placement is waiting for its update (the
\* placement the cue belongs to is on the board); a win or draw cue is
\* played only on a finished board, in the step that records the score of
\* the round, and that step plays the cue of the result.
C15_CueAfterTransition ==
  [][/\ cue' = "move" =>
          /\ clicking' = << >>
          /\ squares' = squares
          /\ isXNext' = isXNext
     /\ cue' \in {"win", "draw"} =>
          /\ RoundOver(squares)
          /\ cue' = (IF HasLine(squares) THEN "win" ELSE "draw")
          /\ ~hasRecordedResult /\ hasRecordedResult'
          /\ scores' = Credited(scores, squares)
     /\ (~hasRecordedResult /\ hasRecordedResult') =>
          cue' \in {"win", "draw"}]_vars

\* the game state, and what each intent makes of it without looking at
\* anything else
GameState == <<squares, isXNext, scores, gameStarted, hasRecordedResult>>
AfterClick(i) ==
  IF ~gameStarted \/ squares[i] # Null \/ RoundOver(squares)
  THEN GameState
  ELSE <<[squares EXCEPT ![i] = IF isXNext THEN "X" ELSE "O"], ~isXNext,
         scores, gameStarted, hasRecordedResult>>
AfterStart == <<EmptyBoard, TRUE, scores, TRUE, FALSE>>
AfterNewRound ==
  IF gameStarted THEN <<EmptyBoard, TRUE, scores, TRUE, FALSE>>
  ELSE GameState
AfterResetAll == <<EmptyBoard, TRUE, ZeroScores, FALSE, FALSE>>
AfterRecording ==
  IF gameStarted /\ ~hasRecordedResult /\ RoundOver(squares)
  THEN <<squares, isXNext, Credited(scores, squares), gameStarted, TRUE>>
  ELSE GameState

AudioAtRest == Quiescent /\ timers = 0 /\ promises = << >>

\* C18: while the game is not started no set of note timers is started, and
\* once the unlock promises, the cleanup timers and the effects have run, no
\* note timers are running in a game that is not started.
C18_NoMusicWhileNotStarted ==
  [][/\ (~gameStarted /\ ~gameStarted') => playing' \subseteq playing
     /\ (~gameStarted' /\ AudioAtRest') => playing' = {}]_vars

\* the step is the call of startBackgroundMusic by the callback of an
\* unlock that succeeded at once
StartMusicCalled ==
  /\ PromiseThen
  /\ promises[FirstSettled].kind = "music"
  /\ promises[FirstSettled].settle = "true"

\* C20: at most one set of note timers is live, a live set is the one
\* backgroundNodesRef refers to and hasActiveAudio is true with it, and a
\* call of startBackgroundMusic leaves music playing, also after a stop.
C20_OneReferencedSet ==
  [][/\ Cardinality(playing') <= 1
     /\ playing' \subseteq {backgroundNodes'}
     /\ playing' # {} => hasActiveAudio'
     /\ StartMusicCalled =>
          (playing' = {backgroundNodes'} /\ hasActiveAudio')]_vars

\* C21: the placements since the last board reset are the marks on the
\* board, at most 9; a board is finished (won or full) after no fewer than
\* 5 of them and is finished after 9; in a started round that is not
\* finished a click on an empty cell places a mark, so clicking empty cells
\* finishes the round; and a finished board changes only by a board reset.
C21_RoundTerminates ==
  [][/\ placed' <= 9
     /\ placed' = CountOf(squares', "X") + CountOf(squares', "O")
     /\ RoundOver(squares') => placed' >= 5
     /\ placed' = 9 => RoundOver(squares')
     /\ \A i \in Cells :
          (/\ handleSquareClick(i)
           /\ gameStarted /\ ~RoundOver(squares) /\ squares[i] = Null)
          => (placed' = placed + 1 /\ squares'[i] \in {"X", "O"})
     /\ (RoundOver(squares) /\ squares' # squares) =>
          (BoardReset /\ squares' = EmptyBoard /\ placed' = 0)]_vars

\* C21 witness: a round went to the ninth placement and ended in a draw,
\* and a click on the finished board has been rejected
C21_Witness ==
  /\ lastOp = "reject"
  /\ placed = 9
  /\ Full(squares) /\ ~HasLine(squares)
  /\ isDraw
  /\ gameStarted

\* C22: requesting a reset opens the dialog and cancelling closes it, and
\* both leave board, turn, scores, lifecycle, result-recorded flag, the
\* other settings and the audio as they are; the scoreboard goes back to
\* zero only in the confirm step, which performs resetAll (empty board,
\* turn X, zero scores, not started, flag cleared) and closes the dialog.
C22_ResetNeedsConfirm ==
  [][/\ handleRequestReset =>
          /\ isConfirmResetOpen'
          /\ UNCHANGED <<GameState, volume, isAudioModalOpen, hasActiveAudio,
                         refVars, promises, timers>>
     /\ handleCancelReset =>
          /\ ~isConfirmResetOpen'
          /\ UNCHANGED <<GameState, volume, isAudioModalOpen, hasActiveAudio,
                         refVars, promises, timers>>
     /\ (scores # ZeroScores /\ scores' = ZeroScores) => handleConfirmReset
     /\ handleConfirmReset =>
          /\ GameState' = AfterResetAll
          /\ ~isConfirmResetOpen']_vars

\* C22 witness: the reset dialog was opened and cancelled after a recorded
\* round, and the score of that round is still on the scoreboard
C22_Witness ==
  /\ lastOp = "cancel"
  /\ ~isConfirmResetOpen
  /\ gameStarted
  /\ hasRecordedResult
  /\ RoundOver(squares)
  /\ TotalScore(scores) = 1

====
